---- MODULE Spec2Model ----
(***************************************************************************)
(* Model of mcp_core.py: the format handlers, the format router, the       *)
(* MCPConfigSynchronizer pass (sync_from_file -> update_configs ->          *)
(* validate_configs -> print_report), the MCPConfigWatcher debounce table  *)
(* driven by file-modification events, and MCPSyncDaemon start and stop.    *)
(*                                                                         *)
(* Encoding of JSON values.  A JSON object (python dict) is a function      *)
(* from key strings to values; the empty object is EmptyMap.  A value that  *)
(* is not an object where the program expects one (the JSON string "abc"    *)
(* stored under the key mcp) is ScalarVal, a function whose only key is     *)
(* "scalar": isinstance(v, dict) is IsDict(v).  None is NoneVal.            *)
(***************************************************************************)
EXTENDS Integers, Sequences, FiniteSets, TLC

VARIABLES
    CONFIG_FILES,   \* MCPConfigSynchronizer.CONFIG_FILES after _filter_installed_apps: the installed apps
    files,          \* the file system: app -> [st, doc], the config file of each app
    config,         \* MCPConfigSynchronizer.config, the canonical config shared by every pass
    pass,           \* thread -> the position and locals of its sync_from_file call
    events,         \* modification events the observer has queued and not yet dispatched
    timers,         \* timer id -> threading.Timer created by _schedule_sync
    pending_syncs,  \* MCPConfigWatcher.pending_syncs: app -> timer id (0: no entry)
    dispatch,       \* the observer thread inside on_modified, between the guard and _schedule_sync
    external,       \* number of external modifications made so far
    running,        \* MCPSyncDaemon.running
    observer,       \* the watchdog Observer of the daemon: unstarted, started, stopping, stopped
    daemon,         \* position of the thread inside MCPSyncDaemon.start and of a thread calling stop
    unsynced,       \* app -> an external modification of its file has not been read by a sync from it
    probe           \* input and result of the pure-function specifications

vars == <<CONFIG_FILES, files, config, pass, events, timers, pending_syncs,
          dispatch, external, running, observer, daemon, unsynced, probe>>

-----------------------------------------------------------------------------
(* Bounds *)

MaxApps == 2        \* installed applications in one run
MaxTimers == 2      \* timers alive at one time (waiting, or their callback running)
MaxExternal == 2    \* external modifications of watched files in one run
MaxDaemonExternal == 2  \* external modifications while the daemon's start and stop are followed
MaxCallbackExternal == 1  \* external modifications while raising callbacks are followed

-----------------------------------------------------------------------------
(* JSON values *)

EmptyMap == [k \in {} |-> k]
NoneVal == [None |-> "None"]
ScalarVal == [scalar |-> "abc"]

Has(d, k) == k \in DOMAIN d
Get(d, k, default) == IF k \in DOMAIN d THEN d[k] ELSE default
Put(d, k, v) == [x \in (DOMAIN d) \cup {k} |-> IF x = k THEN v ELSE d[x]]
Del(d, k) == [x \in (DOMAIN d) \ {k} |-> d[x]]
IsDict(v) == ~ Has(v, "scalar")
\* python truthiness of an extracted config: the empty dict is falsy, "abc" is truthy
FalsyMut(v) == FALSE
Falsy(v) == v = EmptyMap

\* server definitions are opaque records; D2 is D1 with one more field
D1 == [command |-> 1]
D2 == [command |-> 1, env |-> 1]
Names == {"a", "b"}
Srv(S) == [n \in S |-> D1]

\* keys whose values are not JSON objects in any document of the model
LeafKeys == {"foo", "inputs", "format", "command", "env", "editor", "scalar"}
IsDictAt(k, v) == k \notin LeafKeys /\ IsDict(v)

-----------------------------------------------------------------------------
(* Format handlers *)

detect_format(h, d) ==
    CASE h = "ClaudeDesktop" -> Has(d, "mcpServers")
      [] h = "Standard" -> Has(d, "mcp")
      [] h = "VSCode" -> Has(d, "mcp") /\ IsDict(d["mcp"]) /\ Has(d["mcp"], "servers")
      [] h = "Cursor" -> Has(d, "mcpServers") /\ Has(d, "mcp") /\ IsDict(d["mcp"])
      [] h = "Legacy" -> TRUE

\* extract_mcp_config raises (AttributeError on str.get) for the VSCode handler
\* when mcp is not a dict
extract_raises(h, d) ==
    h = "VSCode" /\ Has(d, "mcp") /\ ~ IsDict(d["mcp"])

extract_mcp_configMut(h, d) ==
    CASE h = "ClaudeDesktop" ->
           [format |-> "claude_desktop", servers |-> Get(d, "mcpServers", EmptyMap)]
      [] h = "Standard" -> Get(d, "mcp", EmptyMap)
      [] h = "VSCode" ->
           LET mcp_section == Get(d, "mcp", EmptyMap)
           IN [format |-> "vscode",
               servers |-> Get(mcp_section, "servers", EmptyMap),
               inputs |-> Get(mcp_section, "inputs", <<>>)]
      [] h = "Cursor" ->
           [format |-> "cursor_legacy", servers |-> Get(d, "mcpServers", EmptyMap)]
      [] h = "Legacy" -> EmptyMap
extract_mcp_config(h, d) ==
    CASE h = "ClaudeDesktop" ->
           [format |-> "claude_desktop", servers |-> Get(d, "mcpServers", EmptyMap)]
      [] h = "Standard" -> Get(d, "mcp", EmptyMap)
      [] h = "VSCode" ->
           LET mcp_section == Get(d, "mcp", EmptyMap)
           IN [format |-> "vscode",
               servers |-> Get(mcp_section, "servers", EmptyMap),
               inputs |-> Get(mcp_section, "inputs", <<>>)]
      [] h = "Cursor" ->
           IF Has(d, "mcp") /\ IsDict(d["mcp"]) THEN d["mcp"]
           ELSE [format |-> "cursor_legacy", servers |-> Get(d, "mcpServers", EmptyMap)]
      [] h = "Legacy" -> EmptyMap

\* merge_mcp_config raises (TypeError on item assignment) for the VSCode handler
\* when the existing document's mcp is not a dict
merge_raises(h, existing, cfg) ==
    h = "VSCode" /\ Has(existing, "mcp") /\ ~ IsDict(existing["mcp"])

merge_mcp_configMut(h, existing, cfg) ==
    CASE h = "ClaudeDesktop" ->
           IF IsDict(cfg) /\ Has(cfg, "servers") THEN Put(existing, "mcpServers", cfg["servers"])
           ELSE IF IsDict(cfg) /\ Has(cfg, "mcpServers")
           THEN Put(existing, "mcpServers", cfg["mcpServers"])
           ELSE Put(existing, "mcpServers", cfg)
      [] h = "Standard" -> Put(existing, "mcp", cfg)
      [] h = "VSCode" ->
           LET mcp0 == EmptyMap
               mcp1 == IF IsDict(cfg) /\ Has(cfg, "servers")
                       THEN LET s == Put(mcp0, "servers", cfg["servers"])
                            IN IF Has(cfg, "inputs") THEN Put(s, "inputs", cfg["inputs"]) ELSE s
                       ELSE IF IsDict(cfg) /\ Has(cfg, "mcpServers")
                       THEN Put(mcp0, "servers", cfg["mcpServers"])
                       ELSE Put(mcp0, "servers", cfg)
               mcp2 == IF Has(mcp1, "inputs") THEN mcp1 ELSE Put(mcp1, "inputs", <<>>)
           IN Put(existing, "mcp", mcp2)
      [] h = "Cursor" -> Del(Put(existing, "mcp", cfg), "mcpServers")
      [] h = "Legacy" -> Put(existing, "mcp", cfg)
merge_mcp_configMut2(h, existing, cfg) ==
    CASE h = "ClaudeDesktop" ->
           IF IsDict(cfg) /\ Has(cfg, "servers") THEN Put(existing, "mcpServers", cfg["servers"])
           ELSE IF IsDict(cfg) /\ Has(cfg, "mcpServers") THEN Put(existing, "mcpServers", cfg["mcpServers"])
           ELSE Put(existing, "mcpServers", cfg)
      [] h = "Standard" -> Put(existing, "mcp", cfg)
      [] h = "VSCode" ->
           LET mcp0 == Get(existing, "mcp", EmptyMap)
               mcp1 == IF IsDict(cfg) /\ Has(cfg, "servers")
                       THEN LET s == Put(mcp0, "servers", cfg["servers"])
                            IN IF Has(cfg, "inputs") THEN Put(s, "inputs", cfg["inputs"]) ELSE s
                       ELSE IF IsDict(cfg) /\ Has(cfg, "mcpServers")
                       THEN Put(mcp0, "servers", cfg["mcpServers"])
                       ELSE Put(mcp0, "servers", cfg)
               mcp2 == IF Has(mcp1, "inputs") THEN mcp1 ELSE Put(mcp1, "inputs", <<>>)
           IN Put(existing, "mcp", mcp2)
      [] h = "Cursor" -> IF Has(existing, "mcp")
                         THEN Del(Put(existing, "mcpServers", cfg), "mcp")
                         ELSE Del(Put(existing, "mcp", cfg), "mcpServers")
      [] h = "Legacy" -> Put(existing, "mcp", cfg)
merge_mcp_config(h, existing, cfg) ==
    CASE h = "ClaudeDesktop" ->
           IF IsDict(cfg) /\ Has(cfg, "servers") THEN Put(existing, "mcpServers", cfg["servers"])
           ELSE IF IsDict(cfg) /\ Has(cfg, "mcpServers") THEN Put(existing, "mcpServers", cfg["mcpServers"])
           ELSE Put(existing, "mcpServers", cfg)
      [] h = "Standard" -> Put(existing, "mcp", cfg)
      [] h = "VSCode" ->
           LET mcp0 == Get(existing, "mcp", EmptyMap)
               mcp1 == IF IsDict(cfg) /\ Has(cfg, "servers")
                       THEN LET s == Put(mcp0, "servers", cfg["servers"])
                            IN IF Has(cfg, "inputs") THEN Put(s, "inputs", cfg["inputs"]) ELSE s
                       ELSE IF IsDict(cfg) /\ Has(cfg, "mcpServers")
                       THEN Put(mcp0, "servers", cfg["mcpServers"])
                       ELSE Put(mcp0, "servers", cfg)
               mcp2 == IF Has(mcp1, "inputs") THEN mcp1 ELSE Put(mcp1, "inputs", <<>>)
           IN Put(existing, "mcp", mcp2)
      [] h = "Cursor" -> Del(Put(existing, "mcp", cfg), "mcpServers")
      [] h = "Legacy" -> Put(existing, "mcp", cfg)

\* the value of the document object given to merge_mcp_config once the call
\* has returned: every handler works on existing_config.copy(), a copy of the
\* top level only, and the VSCode handler assigns servers and inputs inside
\* the mcp mapping this copy shares with the document it was given
merge_existing_after(h, existing, cfg) ==
    IF h = "VSCode" /\ Has(existing, "mcp")
    THEN Put(existing, "mcp", merge_mcp_config(h, existing, cfg)["mcp"])
    ELSE existing

-----------------------------------------------------------------------------
(* Format router *)

FORMAT_HANDLERSMut == <<"ClaudeDesktop", "Standard", "VSCode", "Cursor", "Legacy">>
FORMAT_HANDLERS == <<"ClaudeDesktop", "VSCode", "Cursor", "Standard", "Legacy">>

RECURSIVE first_match(_, _)
first_match(hs, d) ==
    IF hs = <<>> THEN "Legacy"
    ELSE IF detect_format(Head(hs), d) THEN Head(hs)
    ELSE first_match(Tail(hs), d)

detect_config_format(d) == first_match(FORMAT_HANDLERS, d)

get_app_handler(app) ==
    CASE app = "Claude" -> "ClaudeDesktop"
      [] app = "VSCode" -> "VSCode"
      [] app = "Cursor" -> "Cursor"
      [] app \in {"Windsurf", "Roocode-VSCode", "Roocode-Windsurf"} -> "Standard"
      [] OTHER -> "Standard"

-----------------------------------------------------------------------------
(* Files *)

AbsentFile == [st |-> "absent", doc |-> EmptyMap]
BadFile == [st |-> "bad", doc |-> EmptyMap]      \* present, not valid JSON
OkFile(d) == [st |-> "ok", doc |-> d]
Exists(f) == f.st # "absent"

\* the number of characters json.dump(v, f, indent=2) writes
KeyLen(k) ==
    CASE k = "mcpServers" -> 10
      [] k \in {"servers", "command"} -> 7
      [] k \in {"inputs", "format", "editor"} -> 6
      [] k \in {"mcp", "env", "foo"} -> 3
      [] OTHER -> 1                                \* the server names
StrLen(s) ==
    CASE s = "claude_desktop" -> 14
      [] s = "cursor_legacy" -> 13
      [] s = "vscode" -> 6
      [] OTHER -> 3
RECURSIVE JsonLen(_, _)
RECURSIVE JsonItemsLen(_, _, _)
JsonValueLen(k, v, depth) ==
    IF k = "inputs"                                \* a list of one-digit numbers
    THEN IF Len(v) = 0 THEN 2
         ELSE 1 + Len(v) * (1 + 2 * (depth + 1) + 1) + (Len(v) - 1) + 1 + 2 * depth + 1
    ELSE IF k = "format" THEN StrLen(v) + 2
    ELSE IF k \in LeafKeys THEN (IF v < 10 THEN 1 ELSE 2)
    ELSE IF v = ScalarVal THEN StrLen("abc") + 2
    ELSE JsonLen(v, depth)
JsonItemsLen(d, keys, depth) ==
    IF keys = {} THEN 0
    ELSE LET k == CHOOSE x \in keys : TRUE
         IN 1 + 2 * (depth + 1) + (KeyLen(k) + 2) + 2 + JsonValueLen(k, d[k], depth + 1)
            + JsonItemsLen(d, keys \ {k}, depth)
JsonLen(d, depth) ==
    IF DOMAIN d = {} THEN 2
    ELSE 1 + JsonItemsLen(d, DOMAIN d, depth) + (Cardinality(DOMAIN d) - 1)
         + 1 + 2 * depth + 1

\* a file written by two writers that both had it open: the later, shorter
\* text over the tail of the longer text of d, which does not parse
MixedFile(d) == [st |-> "bad", doc |-> d]
\* the length of a file; a file truncated by open(path, 'w') is empty
FileLen(f) == IF f.st = "absent" \/ f = BadFile THEN 0 ELSE JsonLen(f.doc, 0)

load_existing_configMut(f) ==
    IF f.st = "ok" THEN f.doc ELSE EmptyMap
load_existing_config(f) ==
    IF f.st = "ok" THEN f.doc
    ELSE IF f.st = "absent" THEN EmptyMap
    ELSE NoneVal

\* CONFIG_FILES.items() iterates in the order of the class-level dict
AppOrder == <<"Cursor", "Windsurf", "Roocode-VSCode", "Roocode-Windsurf", "Claude", "VSCode">>
Apps == {AppOrder[i] : i \in 1..Len(AppOrder)}
TargetsOf(installed) == SelectSeq(AppOrder, LAMBDA a : a \in installed)
Targets == TargetsOf(CONFIG_FILES)

-----------------------------------------------------------------------------
(* check_destructive_operations *)

DEFAULT_MCP_CONFIG == [servers |-> EmptyMap]

\* len() of a python value: number of keys of a dict, number of characters of a string
PyLen(v) == IF IsDict(v) THEN Cardinality(DOMAIN v) ELSE Len(v["scalar"])

\* the config extracted from a parsed existing document by the detected handler
existing_mcp_config(d) == extract_mcp_config(detect_config_format(d), d)

\* the per-app part of the loop, for an app whose file exists and parses
app_check_raises(d, cfg) ==
    LET e == existing_mcp_config(d)
    IN \/ ~ IsDict(e)                                     \* str.get
       \/ LET es == Get(e, "servers", EmptyMap)
              ss == Get(cfg, "servers", EmptyMap)
          IN ~ IsDict(es) /\ PyLen(es) > PyLen(ss)        \* str.keys

lost_serversMut(d, cfg) ==
    LET es == Get(existing_mcp_config(d), "servers", EmptyMap)
        ss == Get(cfg, "servers", EmptyMap)
    IN IF es # EmptyMap THEN (DOMAIN es) \ (DOMAIN ss) ELSE {}
lost_servers(d, cfg) ==
    LET es == Get(existing_mcp_config(d), "servers", EmptyMap)
        ss == Get(cfg, "servers", EmptyMap)
    IN IF es # EmptyMap /\ PyLen(es) > PyLen(ss) THEN (DOMAIN es) \ (DOMAIN ss) ELSE {}

check_raises(fs, cfg, installed) ==
    \/ ~ IsDict(cfg)                                      \* self.config.get
    \/ \E a \in installed : fs[a].st = "ok" /\ app_check_raises(fs[a].doc, cfg)

\* app -> lost_servers, for the apps reported (defined when check_raises is false)
check_destructive_operations(fs, cfg, installed) ==
    LET rep == {a \in installed : fs[a].st = "ok" /\ lost_servers(fs[a].doc, cfg) # {}}
    IN [a \in rep |-> lost_servers(fs[a].doc, cfg)]

-----------------------------------------------------------------------------
(* merge_configs *)

\* deep_merge raises when the overlay holds a non-empty dict under a key whose
\* value in the base is not a dict (item assignment or .get on a str, an int)
RECURSIVE deep_merge_raises(_, _)
deep_merge_raises(d1, d2) ==
    \E key \in (DOMAIN d1) \cap (DOMAIN d2) :
        /\ IsDictAt(key, d2[key])
        /\ IF IsDictAt(key, d1[key]) THEN deep_merge_raises(d1[key], d2[key])
           ELSE d2[key] # EmptyMap

\* the value deep_merge returns; over an empty overlay dict the loop does not
\* run and the base's value, a dict or not, is returned as it is
RECURSIVE deep_merge(_, _)
deep_merge(d1, d2) ==
    [key \in (DOMAIN d1) \cup (DOMAIN d2) |->
        IF key \notin DOMAIN d2 THEN d1[key]
        ELSE IF IsDictAt(key, d2[key]) /\ key \in DOMAIN d1
        THEN IF IsDictAt(key, d1[key]) THEN deep_merge(d1[key], d2[key]) ELSE d1[key]
        ELSE d2[key]]

merge_configs(existing_config, new_config) == deep_merge(existing_config, new_config)

\* the value of existing_config once merge_configs has returned: deep_merge
\* works on existing_config.copy(), whose nested dicts are those of
\* existing_config, and merges into them in place
merge_configs_existing_after(existing_config, new_config) ==
    [key \in DOMAIN existing_config |->
        IF key \in DOMAIN new_config /\ IsDictAt(key, new_config[key])
           /\ IsDictAt(key, existing_config[key])
        THEN deep_merge(existing_config[key], new_config[key])
        ELSE existing_config[key]]

-----------------------------------------------------------------------------
(* validate_configs *)

RECURSIVE check_nested_dict(_, _)
check_nested_dict(ref_dict, app_dict) ==
    \A key \in (DOMAIN ref_dict) \ {"format"} :
        /\ Has(app_dict, key)
        /\ IF IsDictAt(key, ref_dict[key]) /\ IsDictAt(key, app_dict[key])
           THEN check_nested_dict(ref_dict[key], app_dict[key])
           ELSE ref_dict[key] = app_dict[key]

validate_raises(fs, ref, installed) ==
    \E a \in installed :
        /\ fs[a].st = "ok"
        /\ detect_config_format(fs[a].doc) # "ClaudeDesktop"
        /\ ~ IsDict(ref)                                  \* str.items

validate_one(f, ref) ==
    IF f.st = "absent" THEN [in_sync |-> FALSE, reason |-> "missing"]
    ELSE IF f.st = "bad" THEN [in_sync |-> FALSE, reason |-> "parse_error"]
    ELSE LET handler == detect_config_format(f.doc)
             mcp_config == extract_mcp_config(handler, f.doc)
         IN IF handler = "ClaudeDesktop"
            THEN LET ref_servers == IF IsDict(ref) /\ Has(ref, "servers") THEN ref["servers"] ELSE EmptyMap
                     app_servers == IF IsDict(mcp_config) /\ Has(mcp_config, "servers")
                                    THEN mcp_config["servers"] ELSE EmptyMap
                 IN IF ref_servers = EmptyMap /\ ~ Falsy(ref)
                    THEN [in_sync |-> TRUE, reason |-> "format_mismatch_skip"]
                    ELSE IF app_servers = ref_servers
                    THEN [in_sync |-> TRUE, reason |-> "ok"]
                    ELSE [in_sync |-> FALSE, reason |-> "mismatch"]
            ELSE IF check_nested_dict(ref, mcp_config)
                 THEN [in_sync |-> TRUE, reason |-> "ok"]
                 ELSE [in_sync |-> FALSE, reason |-> "mismatch"]

validate_configs(fs, ref, installed) == [a \in installed |-> validate_one(fs[a], ref)]

-----------------------------------------------------------------------------
(* print_report *)

overall_statusMut(sync_results, validation_results) ==
    LET all_success == \A a \in DOMAIN sync_results : sync_results[a].success
    IN IF all_success THEN "SUCCESS" ELSE "FAILED"
overall_status(sync_results, validation_results) ==
    LET all_success == \A a \in DOMAIN sync_results : sync_results[a].success
        all_in_sync == \A a \in DOMAIN validation_results : validation_results[a].in_sync
    IN IF all_success /\ all_in_sync THEN "SUCCESS"
       ELSE IF all_success THEN "PARTIAL_SUCCESS"
       ELSE "FAILED"

-----------------------------------------------------------------------------
(* One sync_from_file call per thread: thread 0 is the command line, thread  *)
(* t > 0 is the thread of timer t.                                           *)

Threads == 0..MaxTimers

IdlePass == [pc |-> "idle", src |-> "", force |-> FALSE, i |-> 0,
             results |-> EmptyMap, validation |-> EmptyMap, status |-> "NONE",
             ret |-> "none", asked |-> FALSE, answer |-> FALSE,
             pre |-> EmptyMap, cfg0 |-> EmptyMap, mine |-> EmptyMap,
             destructive |-> EmptyMap, reported |-> FALSE, run |-> 1,
             \* locals of check_destructive_operations, of the loop of
             \* update_configs and of validate_configs
             source_servers |-> EmptyMap, existing |-> EmptyMap,
             file_existed |-> FALSE, updated |-> EmptyMap, reference |-> EmptyMap]

\* where a call of update_configs returns to: into sync_from_file, which goes
\* on to validate and report, or to a caller that called update_configs itself
update_configs_return(t) == IF pass[t].run = 1 THEN "validate" ELSE "returned"

\* a write of an app's file by a pass, seen by the started observer; the
\* observer's queue skips an event equal to one it already holds
EchoEvent(app) == [app |-> app, path |-> 1]
Notify(app) == IF observer = "started" THEN events \cup {EchoEvent(app)} ELSE events

\* Every step of a pass below is one access to the state the threads share
\* (the files, self.config) together with the thread's own computation up to
\* its next access: no lock is held anywhere in a pass.  No step of the model
\* deletes a file, so a file that exists at `exists()` still exists at the
\* `open` that follows, and the two are one step taken at the time of the open.

\* sync_from_file up to the extraction: the source is tested (851), read and
\* parsed (856), its format detected and its MCP config extracted (862-867)
SyncLoad(t, src, force) ==
    LET f == files[src]
        source_config == load_existing_config(f)
        handler == detect_config_format(source_config)
        mcp_config == extract_mcp_config(handler, source_config)
        \* pre and cfg0 remember the files and the canonical config before a
        \* command-line call, for the statements about what the call changed
        base == IF t = 0
                THEN [IdlePass EXCEPT !.src = src, !.force = force,
                                      !.pre = files, !.cfg0 = config]
                ELSE [IdlePass EXCEPT !.src = src, !.force = force]
    IN /\ unsynced' = [unsynced EXCEPT ![src] = FALSE]
       /\ IF ~ Exists(f) \/ source_config = NoneVal
          THEN pass' = [pass EXCEPT ![t] = [base EXCEPT !.pc = "done", !.ret = "false"]]
          \* the handler detected for a parsed document never raises in extract
          ELSE IF Falsy(mcp_config)
          THEN pass' = [pass EXCEPT ![t] = [base EXCEPT !.pc = "done", !.ret = "false"]]
          ELSE pass' = [pass EXCEPT ![t] = [base EXCEPT !.pc = "assign", !.mine = mcp_config]]

\* sync_from_file: self.config = mcp_config (872)
sync_assign(t) ==
    /\ pass[t].pc = "assign"
    /\ config' = pass[t].mine
    /\ pass' = [pass EXCEPT ![t].pc = "check"]
    /\ UNCHANGED <<CONFIG_FILES, files, events, timers, pending_syncs,
                   dispatch, external, running, observer, daemon, unsynced, probe>>

\* update_configs: ensure_directories, then check_destructive_operations reads
\* source_servers from self.config (492)
update_configs_check(t) ==
    /\ pass[t].pc = "check"
    /\ IF ~ IsDict(config)                                \* self.config.get
       THEN pass' = [pass EXCEPT ![t].pc = "raised", ![t].ret = "raised"]
       ELSE pass' = [pass EXCEPT ![t].pc = "check_app", ![t].i = 1,
                                 ![t].source_servers = Get(config, "servers", EmptyMap)]
    /\ UNCHANGED <<CONFIG_FILES, files, config, events, timers, pending_syncs,
                   dispatch, external, running, observer, daemon, unsynced, probe>>

NeedsPromptMut(destructive_apps, force) == destructive_apps # EmptyMap
NeedsPrompt(destructive_apps, force) == destructive_apps # EmptyMap /\ ~ force

\* one iteration of the loop of check_destructive_operations (494-516): the
\* app's file is tested, read and compared with source_servers; after the last
\* app update_configs tests `destructive_apps and not force`
check_destructive_app(t) ==
    /\ pass[t].pc = "check_app"
    /\ LET app == Targets[pass[t].i]
           f == files[app]
           cfg == [servers |-> pass[t].source_servers]
           last == pass[t].i = Len(Targets)
           destructive_apps ==
               IF f.st = "ok" /\ lost_servers(f.doc, cfg) # {}
               THEN Put(pass[t].destructive, app, lost_servers(f.doc, cfg))
               ELSE pass[t].destructive
       IN IF f.st = "ok" /\ app_check_raises(f.doc, cfg)
          THEN pass' = [pass EXCEPT ![t].pc = "raised", ![t].ret = "raised",
                                    ![t].source_servers = EmptyMap]
          ELSE IF ~ last
          THEN pass' = [pass EXCEPT ![t].i = pass[t].i + 1,
                                    ![t].destructive = destructive_apps]
          ELSE IF NeedsPrompt(destructive_apps, pass[t].force)
          THEN pass' = [pass EXCEPT ![t].pc = "prompt", ![t].asked = TRUE, ![t].i = 0,
                                    ![t].destructive = destructive_apps,
                                    ![t].source_servers = EmptyMap]
          ELSE pass' = [pass EXCEPT ![t].pc = "write", ![t].i = 1,
                                    ![t].destructive = destructive_apps,
                                    ![t].source_servers = EmptyMap]
    /\ UNCHANGED <<CONFIG_FILES, files, config, events, timers, pending_syncs,
                   dispatch, external, running, observer, daemon, unsynced, probe>>

CancelledResults(installed) ==
    [a \in installed |-> [success |-> FALSE, action |-> "cancelled"]]

\* prompt_user_confirmation: the operator answers, or interrupts (answer FALSE)
prompt_user_confirmation(t) ==
    /\ pass[t].pc = "prompt"
    /\ \E answer \in BOOLEAN :
        IF answer
        THEN pass' = [pass EXCEPT ![t].pc = "write", ![t].i = 1, ![t].answer = TRUE]
        ELSE pass' = [pass EXCEPT ![t].pc = update_configs_return(t),
                                  ![t].results = CancelledResults(CONFIG_FILES)]
    /\ UNCHANGED <<CONFIG_FILES, files, config, events, timers, pending_syncs,
                   dispatch, external, running, observer, daemon, unsynced, probe>>

\* the end of one iteration of the loop of update_configs: the app's result is
\* recorded and the loop goes to the next app or update_configs returns
NextTarget(t, res) ==
    [pass EXCEPT ![t].results = Put(pass[t].results, Targets[pass[t].i], res),
                 ![t].i = pass[t].i + 1,
                 ![t].pc = IF pass[t].i = Len(Targets) THEN update_configs_return(t)
                           ELSE "write",
                 ![t].existing = EmptyMap, ![t].file_existed = FALSE,
                 ![t].updated = EmptyMap]

\* the loop of update_configs, load_existing_config(config_path) (581): a file
\* that does not parse is skipped.  A file found here also exists at
\* config_path.exists() (596); for a file not found that test is a later step
update_configs_load(t) ==
    /\ pass[t].pc = "write"
    /\ LET f == files[Targets[pass[t].i]]
           existing_config == load_existing_config(f)
       IN IF existing_config = NoneVal
          THEN pass' = NextTarget(t, [success |-> FALSE, action |-> "skipped"])
          ELSE pass' = [pass EXCEPT ![t].existing = existing_config,
                                    ![t].file_existed = Exists(f),
                                    ![t].pc = IF Exists(f) THEN "merge" ELSE "exists"]
    /\ UNCHANGED <<CONFIG_FILES, files, config, events, timers, pending_syncs,
                   dispatch, external, running, observer, daemon, unsynced, probe>>

\* file_existed = config_path.exists() (596), for a file load_existing_config
\* did not find
update_configs_exists(t) ==
    /\ pass[t].pc = "exists"
    /\ pass' = [pass EXCEPT ![t].file_existed = Exists(files[Targets[pass[t].i]]),
                            ![t].pc = "merge"]
    /\ UNCHANGED <<CONFIG_FILES, files, config, events, timers, pending_syncs,
                   dispatch, external, running, observer, daemon, unsynced, probe>>

\* handler.merge_mcp_config(existing_config, self.config) (602) reads the
\* canonical config and, for the VSCode handler, changes existing_config in
\* place; an exception is recorded as failed (619-626)
update_configs_merge(t) ==
    /\ pass[t].pc = "merge"
    /\ LET handler == get_app_handler(Targets[pass[t].i])
       IN IF merge_raises(handler, pass[t].existing, config)
          THEN pass' = NextTarget(t, [success |-> FALSE, action |-> "failed"])
          ELSE pass' = [pass EXCEPT ![t].updated =
                                        merge_mcp_config(handler, pass[t].existing, config),
                                    ![t].existing =
                                        merge_existing_after(handler, pass[t].existing, config),
                                    ![t].pc = "truncate"]
    /\ UNCHANGED <<CONFIG_FILES, files, config, events, timers, pending_syncs,
                   dispatch, external, running, observer, daemon, unsynced, probe>>

\* open(config_path, 'w') (605) creates or truncates the file: it exists, is
\* empty and does not parse until the document is written
update_configs_truncate(t) ==
    /\ pass[t].pc = "truncate"
    /\ files' = [files EXCEPT ![Targets[pass[t].i]] = BadFile]
    /\ events' = Notify(Targets[pass[t].i])
    /\ pass' = [pass EXCEPT ![t].pc = "dump"]
    /\ UNCHANGED <<CONFIG_FILES, config, timers, pending_syncs,
                   dispatch, external, running, observer, daemon, unsynced, probe>>

\* json.dump and the close of the file (606), then the result (609-617).  The
\* text is written in one piece, at the start of the file, when the file is
\* closed: over a longer text that another writer put there since this pass
\* truncated the file, it leaves that text's tail behind it
update_configs_write(t) ==
    /\ pass[t].pc = "dump"
    /\ LET app == Targets[pass[t].i]
       IN files' = [files EXCEPT ![app] =
                       IF JsonLen(pass[t].updated, 0) >= FileLen(files[app])
                       THEN OkFile(pass[t].updated)
                       ELSE MixedFile(files[app].doc)]
    /\ events' = Notify(Targets[pass[t].i])
    /\ pass' = NextTarget(t, [success |-> TRUE,
                              action |-> IF pass[t].file_existed THEN "updated"
                                         ELSE "created"])
    /\ UNCHANGED <<CONFIG_FILES, config, timers, pending_syncs,
                   dispatch, external, running, observer, daemon, unsynced, probe>>

\* validate_configs: reference_config = self.config (632-633)
validate_configs_begin(t) ==
    /\ pass[t].pc = "validate"
    /\ pass' = [pass EXCEPT ![t].pc = "validate_app", ![t].i = 1,
                            ![t].reference = config]
    /\ UNCHANGED <<CONFIG_FILES, files, config, events, timers, pending_syncs,
                   dispatch, external, running, observer, daemon, unsynced, probe>>

\* one iteration of the loop of validate_configs (638-716): the app's file is
\* tested, read and compared with the reference; after the last app
\* print_report computes the status and sync_from_file returns
validate_and_report(t) ==
    /\ pass[t].pc = "validate_app"
    /\ LET app == Targets[pass[t].i]
           f == files[app]
           ref == pass[t].reference
           v == Put(pass[t].validation, app, validate_one(f, ref))
           status == overall_status(pass[t].results, v)
       IN IF validate_raises(files, ref, {app})
          THEN pass' = [pass EXCEPT ![t].pc = "raised", ![t].ret = "raised",
                                    ![t].reference = EmptyMap]
          ELSE IF pass[t].i < Len(Targets)
          THEN pass' = [pass EXCEPT ![t].i = pass[t].i + 1, ![t].validation = v]
          ELSE pass' = [pass EXCEPT ![t].pc = "done", ![t].validation = v,
                                    ![t].reference = EmptyMap,
                                    ![t].status = status, ![t].reported = TRUE,
                                    ![t].ret = IF status = "SUCCESS" THEN "true" ELSE "false"]
    /\ UNCHANGED <<CONFIG_FILES, files, config, events, timers, pending_syncs,
                   dispatch, external, running, observer, daemon, unsynced, probe>>

\* sync_from_file(app_name, force) called from the command line
sync_from_file(src, force) ==
    /\ ~ running
    /\ pass[0].pc = "idle"
    /\ SyncLoad(0, src, force)
    /\ UNCHANGED <<CONFIG_FILES, files, config, events, timers, pending_syncs,
                   dispatch, external, running, observer, daemon, probe>>

\* update_configs(force=force) called a second time on the same synchronizer,
\* with no custom config, after a sync_from_file call that wrote has returned:
\* self.config is the one the first call used
update_configs_again(force) ==
    /\ ~ running
    /\ pass[0].pc = "done"
    /\ pass[0].run = 1
    /\ DOMAIN pass[0].results = CONFIG_FILES
    /\ pass[0].results # CancelledResults(CONFIG_FILES)
    /\ pass' = [pass EXCEPT ![0] = [IdlePass EXCEPT !.pc = "check", !.run = 2,
                                                    !.src = pass[0].src, !.force = force,
                                                    !.mine = pass[0].mine,
                                                    !.pre = files, !.cfg0 = config]]
    /\ UNCHANGED <<CONFIG_FILES, files, config, events, timers, pending_syncs,
                   dispatch, external, running, observer, daemon, unsynced, probe>>

-----------------------------------------------------------------------------
(* Specification of one command-line synchronization *)

\* _filter_installed_apps: an app is installed when its directory exists.
\* VSCode and Roocode-VSCode test the same directory.
AppDirs == {"Claude", "Code", ".cursor", ".codeium", "Windsurf - Next"}
app_dir(app) ==
    CASE app = "Claude" -> "Claude"
      [] app = "VSCode" -> "Code"
      [] app = "Cursor" -> ".cursor"
      [] app = "Windsurf" -> ".codeium"
      [] app = "Roocode-VSCode" -> "Code"
      [] app = "Roocode-Windsurf" -> "Windsurf - Next"
filter_installed_apps(dirs) == {app \in Apps : app_dir(app) \in dirs}

FileDocs ==
    { EmptyMap,
      [editor |-> 14],
      [mcpServers |-> Srv({"a"})],
      [mcpServers |-> Srv({"a", "b"})],
      [mcpServers |-> Srv({"b"}), editor |-> 14],
      [mcpServers |-> EmptyMap],
      [mcp |-> [servers |-> Srv({"a"})]],
      [mcp |-> [servers |-> Srv({"a", "b"}), inputs |-> <<1>>]],
      [mcp |-> [servers |-> [b |-> D2]], editor |-> 14],
      [mcp |-> [servers |-> Srv({"b"})], mcpServers |-> Srv({"a"})],
      [mcp |-> [foo |-> 1]],
      [mcp |-> EmptyMap],
      [mcp |-> ScalarVal] }

FileContents == {AbsentFile, BadFile} \cup {OkFile(d) : d \in FileDocs}

NoEvent == [app |-> "", path |-> 0]
IdleDaemon == [start |-> "idle", stop |-> "idle"]
NoTimer == [state |-> "unused", app |-> "", path |-> 0, seen |-> 0]

InitCommon ==
    /\ config = DEFAULT_MCP_CONFIG
    /\ pass = [t \in Threads |-> IdlePass]
    /\ events = {}
    /\ timers = [t \in 1..MaxTimers |-> NoTimer]
    /\ pending_syncs = [a \in Apps |-> 0]
    /\ dispatch = NoEvent
    /\ external = 0
    /\ unsynced = [a \in Apps |-> FALSE]
    /\ probe = EmptyMap

Init ==
    /\ \E dirs \in SUBSET AppDirs :
           /\ CONFIG_FILES = filter_installed_apps(dirs)
           /\ Cardinality(CONFIG_FILES) \in 1..MaxApps
    /\ \E fs \in [CONFIG_FILES -> FileContents] :
           files = [a \in Apps |-> IF a \in CONFIG_FILES THEN fs[a] ELSE AbsentFile]
    /\ running = FALSE
    /\ observer = "unstarted"
    /\ daemon = IdleDaemon
    /\ InitCommon

Next ==
    \/ \E src \in CONFIG_FILES, force \in BOOLEAN : sync_from_file(src, force)
    \/ sync_assign(0)
    \/ update_configs_check(0)
    \/ check_destructive_app(0)
    \/ prompt_user_confirmation(0)
    \/ update_configs_load(0)
    \/ update_configs_exists(0)
    \/ update_configs_merge(0)
    \/ update_configs_truncate(0)
    \/ update_configs_write(0)
    \/ validate_configs_begin(0)
    \/ validate_and_report(0)
    \/ \E force \in BOOLEAN : update_configs_again(force)

Spec == Init /\ [][Next]_vars

-----------------------------------------------------------------------------
(* MCPConfigWatcher: on_modified, _schedule_sync, _execute_sync *)

TimerIds == 1..MaxTimers

is_sync_in_progressMut(app) == FALSE
is_sync_in_progress(app) == pending_syncs[app] # 0

\* on_modified up to the guard: the observer thread takes one queued event; an
\* event for an app with a pending entry is ignored
on_modified ==
    /\ observer = "started"
    /\ dispatch = NoEvent
    /\ \E e \in events :
        /\ events' = events \ {e}
        /\ IF e.app \in CONFIG_FILES /\ Exists(files[e.app]) /\ ~ is_sync_in_progress(e.app)
           THEN /\ dispatch' = e
                /\ UNCHANGED timers
           ELSE /\ dispatch' = NoEvent
                /\ timers' = [t \in TimerIds |->
                                 IF timers[t].state = "waiting" /\ timers[t].app = e.app
                                 THEN [timers[t] EXCEPT !.seen = e.path]
                                 ELSE timers[t]]
    /\ UNCHANGED <<CONFIG_FILES, files, config, pass, pending_syncs, external,
                   running, observer, daemon, unsynced, probe>>

\* _schedule_sync, under the lock: cancel the timer in the table (a timer whose
\* callback already runs is not stopped by cancel), start a new one, store it
schedule_sync ==
    /\ dispatch # NoEvent
    /\ \E t \in TimerIds :
        /\ timers[t].state = "unused"
        /\ \A u \in TimerIds : u < t => timers[u].state # "unused"
        /\ LET app == dispatch.app
               old == pending_syncs[app]
               cancelled == IF old # 0 /\ timers[old].state = "waiting"
                            THEN [timers EXCEPT ![old] = NoTimer]
                            ELSE timers
           IN /\ timers' = [cancelled EXCEPT ![t] =
                               [state |-> "waiting", app |-> app, path |-> dispatch.path,
                                seen |-> dispatch.path]]
              /\ pending_syncs' = [pending_syncs EXCEPT ![app] = t]
    /\ dispatch' = NoEvent
    /\ UNCHANGED <<CONFIG_FILES, files, config, pass, events, external,
                   running, observer, daemon, unsynced, probe>>

\* the debounce delay of timer t has elapsed: the timer's thread starts
\* _execute_sync(source_app, file_path), which never reads file_path, and
\* cancel() no longer stops it
execute_sync(t) ==
    /\ timers[t].state = "waiting"
    /\ timers' = [timers EXCEPT ![t].state = "running", ![t].path = 0, ![t].seen = 0]
    /\ pass' = [pass EXCEPT ![t] = [IdlePass EXCEPT !.pc = "start", !.src = timers[t].app]]
    /\ UNCHANGED <<CONFIG_FILES, files, config, events, pending_syncs, dispatch, external,
                   running, observer, daemon, unsynced, probe>>

\* _execute_sync calls sync_from_file(source_app) with the default force = False
execute_sync_load(t) ==
    /\ pass[t].pc = "start"
    /\ SyncLoad(t, pass[t].src, FALSE)
    /\ UNCHANGED <<CONFIG_FILES, files, config, events, timers, pending_syncs, dispatch,
                   external, running, observer, daemon, probe>>

execute_sync_finallyMut(t) ==
    /\ timers[t].state = "running"
    /\ pass[t].pc \in {"done", "raised"}
    /\ pending_syncs' = IF pass[t].pc = "raised" THEN pending_syncs
                        ELSE [pending_syncs EXCEPT ![timers[t].app] = 0]
    /\ timers' = [timers EXCEPT ![t] = NoTimer]
    /\ pass' = [pass EXCEPT ![t] = IdlePass]
    /\ UNCHANGED <<CONFIG_FILES, files, config, events, dispatch, external,
                   running, observer, daemon, unsynced, probe>>

\* the except and finally clauses of _execute_sync: whatever sync_from_file
\* returned or raised, the app's entry is popped from the table
execute_sync_finally(t) ==
    /\ timers[t].state = "running"
    /\ pass[t].pc \in {"done", "raised"}
    /\ pending_syncs' = [pending_syncs EXCEPT ![timers[t].app] = 0]
    /\ timers' = [timers EXCEPT ![t] = NoTimer]
    /\ pass' = [pass EXCEPT ![t] = IdlePass]
    /\ UNCHANGED <<CONFIG_FILES, files, config, events, dispatch, external,
                   running, observer, daemon, unsynced, probe>>

\* an application (or the operator) rewrites a watched config file; the
\* observer queues the modification event with the path it was reported under.
\* Claude's file is also reported under a second path (a link to the file);
\* each application writes its own list of servers.
PathVariants(app) == IF app = "Claude" THEN {1, 2} ELSE {1}
ExternalDoc(app) ==
    IF app = "Claude" THEN [mcpServers |-> Srv({"a"})] ELSE [mcpServers |-> Srv({"a", "b"})]

external_modify(app, d, path) ==
    /\ observer = "started"
    /\ external < MaxExternal
    /\ external' = external + 1
    /\ files' = [files EXCEPT ![app] = OkFile(d)]
    /\ events' = events \cup {[app |-> app, path |-> path]}
    /\ unsynced' = [unsynced EXCEPT ![app] = TRUE]
    /\ UNCHANGED <<CONFIG_FILES, config, pass, timers, pending_syncs, dispatch,
                   running, observer, daemon, probe>>

-----------------------------------------------------------------------------
(* Specification of the pure functions: a document is drawn, an operation   *)
(* is applied to it and its result recorded.                                *)

ProbeMcpServers == {Srv(S) : S \in SUBSET Names}
ProbeMcp ==
    {EmptyMap, ScalarVal, [foo |-> 1]}
    \cup {[servers |-> s] : s \in ProbeMcpServers}
    \cup {[servers |-> s, inputs |-> <<1>>] : s \in ProbeMcpServers}
ProbeDocs ==
    LET base == {EmptyMap, [editor |-> 14]}
        withServers == base \cup {Put(d, "mcpServers", s) : d \in base, s \in ProbeMcpServers}
    IN withServers \cup {Put(d, "mcp", m) : d \in withServers, m \in ProbeMcp}

InitPure ==
    /\ CONFIG_FILES = {}
    /\ files = [a \in Apps |-> AbsentFile]
    /\ running = FALSE
    /\ observer = "unstarted"
    /\ daemon = IdleDaemon
    /\ unsynced = [a \in Apps |-> FALSE]
    /\ config = DEFAULT_MCP_CONFIG
    /\ pass = [t \in Threads |-> IdlePass]
    /\ events = {}
    /\ timers = [t \in 1..MaxTimers |-> NoTimer]
    /\ pending_syncs = [a \in Apps |-> 0]
    /\ dispatch = NoEvent
    /\ external = 0
    /\ \E d \in ProbeDocs :
           probe = [op |-> "none", doc |-> d, handler |-> "none",
                    cfg |-> EmptyMap, out |-> EmptyMap, raised |-> FALSE,
                    after |-> EmptyMap]

ProbeDetect ==
    /\ probe.op = "none"
    /\ probe' = [probe EXCEPT !.op = "detect", !.handler = detect_config_format(probe.doc)]
    /\ UNCHANGED <<CONFIG_FILES, files, config, pass, events, timers, pending_syncs,
                   dispatch, external, running, observer, daemon, unsynced>>

\* handler.merge_mcp_config(doc, cfg) for one of the five handlers
ProbeMerge(h, cfg) ==
    /\ probe.op = "none"
    /\ probe' = [probe EXCEPT !.op = "merge", !.handler = h, !.cfg = cfg,
                              !.raised = merge_raises(h, probe.doc, cfg),
                              !.out = IF merge_raises(h, probe.doc, cfg) THEN EmptyMap
                                      ELSE merge_mcp_config(h, probe.doc, cfg),
                              !.after = IF merge_raises(h, probe.doc, cfg) THEN probe.doc
                                        ELSE merge_existing_after(h, probe.doc, cfg)]
    /\ UNCHANGED <<CONFIG_FILES, files, config, pass, events, timers, pending_syncs,
                   dispatch, external, running, observer, daemon, unsynced>>

\* handler.extract_mcp_config(handler.merge_mcp_config(doc, handler.extract_mcp_config(doc)))
\* for a handler whose detect_format accepts doc
ProbeRoundTrip(h) ==
    /\ probe.op = "none"
    /\ detect_format(h, probe.doc)
    /\ ~ extract_raises(h, probe.doc)
    /\ LET cfg == extract_mcp_config(h, probe.doc)
           merged == merge_mcp_config(h, probe.doc, cfg)
       IN /\ ~ merge_raises(h, probe.doc, cfg)
          /\ probe' = [probe EXCEPT !.op = "roundtrip", !.handler = h, !.cfg = cfg,
                                    !.out = extract_mcp_config(h, merged)]
    /\ UNCHANGED <<CONFIG_FILES, files, config, pass, events, timers, pending_syncs,
                   dispatch, external, running, observer, daemon, unsynced>>

\* merge_configs(base, overlay) on two mappings
MergeBases ==
    { [servers |-> EmptyMap],
      [servers |-> Srv({"a"})],
      [servers |-> Srv({"a"}), format |-> "x"],
      [servers |-> ScalarVal] }
MergeOverlays ==
    { EmptyMap,
      [servers |-> EmptyMap],
      [servers |-> Srv({"b"})],
      [servers |-> [a |-> [env |-> 1]], inputs |-> <<1>>],
      [servers |-> ScalarVal] }

ProbeMergeConfigs(base, overlay) ==
    /\ probe.op = "none"
    /\ LET raises == deep_merge_raises(base, overlay)
       IN probe' = [probe EXCEPT !.op = "merge_configs", !.doc = base, !.cfg = overlay,
                                 !.raised = raises,
                                 !.out = IF raises THEN EmptyMap ELSE merge_configs(base, overlay),
                                 !.after = IF raises THEN base
                                           ELSE merge_configs_existing_after(base, overlay)]
    /\ UNCHANGED <<CONFIG_FILES, files, config, pass, events, timers, pending_syncs,
                   dispatch, external, running, observer, daemon, unsynced>>

\* a first MCPConfigSynchronizer is constructed (self.config = DEFAULT_MCP_CONFIG.copy(),
\* which shares its servers dict with the class attribute) and update_configs is
\* called on it with a custom config: out is the instance's config, after the
\* value of the class attribute DEFAULT_MCP_CONFIG
ProbeCustomConfig(custom_config) ==
    /\ probe.op = "none"
    /\ custom_config # EmptyMap
    /\ ~ deep_merge_raises(DEFAULT_MCP_CONFIG, custom_config)
    /\ probe' = [probe EXCEPT !.op = "custom", !.doc = DEFAULT_MCP_CONFIG,
                              !.cfg = custom_config,
                              !.out = merge_configs(DEFAULT_MCP_CONFIG, custom_config),
                              !.after = merge_configs_existing_after(DEFAULT_MCP_CONFIG,
                                                                     custom_config)]
    /\ UNCHANGED <<CONFIG_FILES, files, config, pass, events, timers, pending_syncs,
                   dispatch, external, running, observer, daemon, unsynced>>

\* a second MCPConfigSynchronizer is constructed in the same process: its
\* config is a copy of the class attribute as it is now
ProbeConstruct ==
    /\ probe.op = "custom"
    /\ probe' = [probe EXCEPT !.op = "construct", !.out = probe.after]
    /\ UNCHANGED <<CONFIG_FILES, files, config, pass, events, timers, pending_syncs,
                   dispatch, external, running, observer, daemon, unsynced>>

\* validate_configs(reference_config) over one existing, parsable target file
ValidateRefs ==
    { [servers |-> EmptyMap],
      [format |-> "claude_desktop", servers |-> EmptyMap],
      [servers |-> Srv({"a"})],
      [format |-> "claude_desktop", servers |-> Srv({"a", "b"})],
      [format |-> "vscode", servers |-> Srv({"b"}), inputs |-> <<1>>] }

ProbeValidate(reference_config) ==
    /\ probe.op = "none"
    /\ LET handler == detect_config_format(probe.doc)
       IN /\ ~ extract_raises(handler, probe.doc)
          /\ probe' = [probe EXCEPT !.op = "validate", !.handler = handler,
                                    !.cfg = reference_config,
                                    !.out = validate_one(OkFile(probe.doc), reference_config)]
    /\ UNCHANGED <<CONFIG_FILES, files, config, pass, events, timers, pending_syncs,
                   dispatch, external, running, observer, daemon, unsynced>>

HandlerNames == {FORMAT_HANDLERS[i] : i \in 1..Len(FORMAT_HANDLERS)}

ProbeCfgs ==
    { EmptyMap, ScalarVal, [foo |-> 1],
      [servers |-> Srv({"a"})],
      [format |-> "claude_desktop", servers |-> Srv({"a", "b"})],
      [format |-> "vscode", servers |-> Srv({"b"}), inputs |-> <<1>>],
      [mcpServers |-> Srv({"a"})] }

NextPure ==
    \/ ProbeDetect
    \/ \E h \in HandlerNames, cfg \in ProbeCfgs : ProbeMerge(h, cfg)
    \/ \E h \in HandlerNames : ProbeRoundTrip(h)
    \/ \E base \in MergeBases, overlay \in MergeOverlays : ProbeMergeConfigs(base, overlay)
    \/ \E custom_config \in MergeOverlays : ProbeCustomConfig(custom_config)
    \/ ProbeConstruct
    \/ \E reference_config \in ValidateRefs : ProbeValidate(reference_config)

SpecPure == InitPure /\ [][NextPure]_vars

-----------------------------------------------------------------------------
(* Specification of the running daemon: two installed apps are watched *)

WatchedSets == { {"Claude", "Windsurf"} }
WatchContents(app) ==
    IF app = "Claude" THEN { OkFile([mcpServers |-> Srv({"a"})]) } ELSE { AbsentFile }
\* the watched apps; every file drawn from the contents of its app, no other file
WatchedApps == UNION WatchedSets
AllWatchContents == UNION {WatchContents(a) : a \in WatchedApps}
WatchFiles ==
    { fs \in [Apps -> {AbsentFile} \cup AllWatchContents] :
        \A a \in Apps : fs[a] \in (IF a \in WatchedApps THEN WatchContents(a)
                                   ELSE {AbsentFile}) }

InitWatch ==
    /\ CONFIG_FILES \in WatchedSets
    /\ files \in WatchFiles
    /\ running = TRUE
    /\ observer = "started"
    /\ daemon = [start |-> "loop", stop |-> "idle"]
    /\ InitCommon

NextWatch ==
    \/ \E app \in CONFIG_FILES : \E path \in PathVariants(app) :
           external_modify(app, ExternalDoc(app), path)
    \/ on_modified
    \/ schedule_sync
    \/ \E t \in TimerIds : execute_sync(t)
    \/ \E t \in TimerIds : execute_sync_load(t)
    \/ \E t \in TimerIds : sync_assign(t)
    \/ \E t \in TimerIds : update_configs_check(t)
    \/ \E t \in TimerIds : check_destructive_app(t)
    \/ \E t \in TimerIds : prompt_user_confirmation(t)
    \/ \E t \in TimerIds : update_configs_load(t)
    \/ \E t \in TimerIds : update_configs_exists(t)
    \/ \E t \in TimerIds : update_configs_merge(t)
    \/ \E t \in TimerIds : update_configs_truncate(t)
    \/ \E t \in TimerIds : update_configs_write(t)
    \/ \E t \in TimerIds : validate_configs_begin(t)
    \/ \E t \in TimerIds : validate_and_report(t)
    \/ \E t \in TimerIds : execute_sync_finally(t)

SpecWatch == InitWatch /\ [][NextWatch]_vars

-----------------------------------------------------------------------------
(* MCPSyncDaemon: start, stop, _signal_handler.  daemon.start is the position *)
(* of the main thread inside start(), daemon.stop the position of another     *)
(* thread inside an explicit stop() call; a thread at "test", "set",          *)
(* "observer_stop" or "join" is inside the body of stop().                    *)

DaemonThreads == {"start", "stop"}

\* start(): schedule the watches, then self.observer.start() (335)
daemon_start ==
    /\ daemon.start = "idle"
    /\ observer = "unstarted"
    /\ observer' = "started"
    /\ daemon' = [daemon EXCEPT !.start = "set_running"]
    /\ UNCHANGED <<CONFIG_FILES, files, config, pass, events, timers, pending_syncs,
                   dispatch, external, running, unsynced, probe>>

\* start(): self.running = True (336)
daemon_set_running ==
    /\ daemon.start = "set_running"
    /\ running' = TRUE
    /\ daemon' = [daemon EXCEPT !.start = "install"]
    /\ UNCHANGED <<CONFIG_FILES, files, config, pass, events, timers, pending_syncs,
                   dispatch, external, observer, unsynced, probe>>

\* start(): signal.signal(SIGINT, ...), signal.signal(SIGTERM, ...) (339-340),
\* then the try statement and its wait loop are entered
daemon_install_handlers ==
    /\ daemon.start = "install"
    /\ daemon' = [daemon EXCEPT !.start = "loop"]
    /\ UNCHANGED <<CONFIG_FILES, files, config, pass, events, timers, pending_syncs,
                   dispatch, external, running, observer, unsynced, probe>>

\* SIGINT while the main thread is inside start() and _signal_handler is not
\* installed yet: KeyboardInterrupt is raised outside the try statement and
\* leaves start(); no finally clause runs
keyboard_interrupt ==
    /\ daemon.start \in {"set_running", "install"}
    /\ daemon' = [daemon EXCEPT !.start = "raised"]
    /\ UNCHANGED <<CONFIG_FILES, files, config, pass, events, timers, pending_syncs,
                   dispatch, external, running, observer, unsynced, probe>>

\* SIGINT or SIGTERM while the main thread is inside start(), once
\* _signal_handler is installed
signal_handler ==
    /\ daemon.start \notin {"idle", "set_running", "install", "raised", "returned"}
    /\ running' = FALSE
    /\ UNCHANGED <<CONFIG_FILES, files, config, pass, events, timers, pending_syncs,
                   dispatch, external, observer, daemon, unsynced, probe>>

\* the wait loop of start() sees running = False and enters finally: self.stop()
start_loop_exit ==
    /\ daemon.start = "loop"
    /\ ~ running
    /\ daemon' = [daemon EXCEPT !.start = "test"]
    /\ UNCHANGED <<CONFIG_FILES, files, config, pass, events, timers, pending_syncs,
                   dispatch, external, running, observer, unsynced, probe>>

\* another thread calls stop() on the started daemon
stop_call ==
    /\ daemon.stop = "idle"
    /\ daemon.start # "idle"
    /\ daemon' = [daemon EXCEPT !.stop = "test"]
    /\ UNCHANGED <<CONFIG_FILES, files, config, pass, events, timers, pending_syncs,
                   dispatch, external, running, observer, unsynced, probe>>

\* stop(): if self.running
stop_test(th) ==
    /\ daemon[th] = "test"
    /\ daemon' = [daemon EXCEPT ![th] = IF running THEN "set" ELSE "returned"]
    /\ UNCHANGED <<CONFIG_FILES, files, config, pass, events, timers, pending_syncs,
                   dispatch, external, running, observer, unsynced, probe>>

\* stop(): self.running = False
stop_set(th) ==
    /\ daemon[th] = "set"
    /\ running' = FALSE
    /\ daemon' = [daemon EXCEPT ![th] = "observer_stop"]
    /\ UNCHANGED <<CONFIG_FILES, files, config, pass, events, timers, pending_syncs,
                   dispatch, external, observer, unsynced, probe>>

\* stop(): self.observer.stop(), after which the observer dispatches no further event
stop_observer_stop(th) ==
    /\ daemon[th] = "observer_stop"
    /\ observer' = IF observer = "started" THEN "stopping" ELSE observer
    /\ daemon' = [daemon EXCEPT ![th] = "join"]
    /\ UNCHANGED <<CONFIG_FILES, files, config, pass, events, timers, pending_syncs,
                   dispatch, external, running, unsynced, probe>>

\* stop(): self.observer.join() returns once the observer thread has left its handler
stop_observer_join(th) ==
    /\ daemon[th] = "join"
    /\ dispatch = NoEvent
    /\ observer' = "stopped"
    /\ daemon' = [daemon EXCEPT ![th] = "returned"]
    /\ UNCHANGED <<CONFIG_FILES, files, config, pass, events, timers, pending_syncs,
                   dispatch, external, running, unsynced, probe>>

\* the daemon is followed with one installed app, whose file is edited
DaemonSets == { {"Claude"} }
DaemonDocs == { [mcpServers |-> Srv({"a"})], [mcpServers |-> Srv({"a", "b"})] }

InitDaemon ==
    /\ CONFIG_FILES \in DaemonSets
    /\ \E d \in DaemonDocs :
           files = [a \in Apps |-> IF a \in CONFIG_FILES THEN OkFile(d) ELSE AbsentFile]
    /\ running = FALSE
    /\ observer = "unstarted"
    /\ daemon = IdleDaemon
    /\ InitCommon

\* update_configs_exists is no step of this specification: the only target is
\* the source of the sync, a file that exists
NextDaemon ==
    \/ daemon_start
    \/ daemon_set_running
    \/ daemon_install_handlers
    \/ keyboard_interrupt
    \/ signal_handler
    \/ start_loop_exit
    \/ stop_call
    \/ \E th \in DaemonThreads : stop_test(th)
    \/ \E th \in DaemonThreads : stop_set(th)
    \/ \E th \in DaemonThreads : stop_observer_stop(th)
    \/ \E th \in DaemonThreads : stop_observer_join(th)
    \/ \E app \in CONFIG_FILES, d \in DaemonDocs :
           external < MaxDaemonExternal /\ external_modify(app, d, 1)
    \/ on_modified
    \/ schedule_sync
    \/ \E t \in TimerIds : execute_sync(t)
    \/ \E t \in TimerIds : execute_sync_load(t)
    \/ \E t \in TimerIds : sync_assign(t)
    \/ \E t \in TimerIds : update_configs_check(t)
    \/ \E t \in TimerIds : check_destructive_app(t)
    \/ \E t \in TimerIds : prompt_user_confirmation(t)
    \/ \E t \in TimerIds : update_configs_load(t)
    \/ \E t \in TimerIds : update_configs_merge(t)
    \/ \E t \in TimerIds : update_configs_truncate(t)
    \/ \E t \in TimerIds : update_configs_write(t)
    \/ \E t \in TimerIds : validate_configs_begin(t)
    \/ \E t \in TimerIds : validate_and_report(t)
    \/ \E t \in TimerIds : execute_sync_finally(t)

SpecDaemon == InitDaemon /\ [][NextDaemon]_vars

-----------------------------------------------------------------------------
(* Specification of the timer callbacks over files a sync cannot handle:    *)
(* the watcher runs while a watched file may hold a non-mapping mcp value,   *)
(* on which sync_from_file raises.                                           *)

CallbackContents(app) ==
    IF app = "Claude" THEN { OkFile([mcpServers |-> Srv({"a"})]), OkFile([mcp |-> ScalarVal]) }
    ELSE { AbsentFile, OkFile([mcpServers |-> Srv({"a", "b"})]), OkFile([mcp |-> ScalarVal]) }

AllCallbackContents == UNION {CallbackContents(a) : a \in WatchedApps}
CallbackFiles ==
    { fs \in [Apps -> {AbsentFile} \cup AllCallbackContents] :
        \A a \in Apps : fs[a] \in (IF a \in WatchedApps THEN CallbackContents(a)
                                   ELSE {AbsentFile}) }

InitCallback ==
    /\ CONFIG_FILES \in WatchedSets
    /\ files \in CallbackFiles
    /\ running = TRUE
    /\ observer = "started"
    /\ daemon = [start |-> "loop", stop |-> "idle"]
    /\ InitCommon

NextCallback ==
    \/ \E app \in CONFIG_FILES : \E path \in PathVariants(app) :
           external < MaxCallbackExternal /\ external_modify(app, ExternalDoc(app), path)
    \/ on_modified
    \/ schedule_sync
    \/ \E t \in TimerIds : execute_sync(t)
    \/ \E t \in TimerIds : execute_sync_load(t)
    \/ \E t \in TimerIds : sync_assign(t)
    \/ \E t \in TimerIds : update_configs_check(t)
    \/ \E t \in TimerIds : check_destructive_app(t)
    \/ \E t \in TimerIds : prompt_user_confirmation(t)
    \/ \E t \in TimerIds : update_configs_load(t)
    \/ \E t \in TimerIds : update_configs_exists(t)
    \/ \E t \in TimerIds : update_configs_merge(t)
    \/ \E t \in TimerIds : update_configs_truncate(t)
    \/ \E t \in TimerIds : update_configs_write(t)
    \/ \E t \in TimerIds : validate_configs_begin(t)
    \/ \E t \in TimerIds : validate_and_report(t)
    \/ \E t \in TimerIds : execute_sync_finally(t)

SpecCallback == InitCallback /\ [][NextCallback]_vars

-----------------------------------------------------------------------------
(* Claims about the router and one synchronization pass *)

\* C1: every document that has both a top-level mcpServers key and a top-level
\* mcp key whose value is a mapping is routed to the Cursor handler, never to
\* the ClaudeDesktop or Standard handler.
C1_RouterPriority ==
    (/\ probe.op = "detect"
     /\ Has(probe.doc, "mcpServers")
     /\ Has(probe.doc, "mcp")
     /\ IsDict(probe.doc["mcp"]))
    => probe.handler = "Cursor"

\* the write phase of thread t ran to its end (it was not cancelled)
Wrote(t) ==
    /\ pass[t].pc \in {"validate", "validate_app", "returned", "done", "raised"}
    /\ DOMAIN pass[t].results = CONFIG_FILES
    /\ \A a \in CONFIG_FILES : pass[t].results[a].action # "cancelled"

Declined(t) ==
    /\ pass[t].asked
    /\ ~ pass[t].answer
    /\ pass[t].pc \in {"validate", "validate_app", "returned", "done", "raised"}

\* C2: after update_configs completes without cancellation, validate_configs
\* against the canonical config reports in_sync for every target whose
\* SyncResult has success = true.
C2_ValidationSymmetry ==
    (pass[0].pc = "done" /\ Wrote(0))
    => \A a \in CONFIG_FILES :
           pass[0].results[a].success => pass[0].validation[a].in_sync

\* the names of the servers a parsed document holds, as the destructive check reads them
ServerNamesOf(d) ==
    LET e == existing_mcp_config(d)
    IN IF IsDict(e) /\ Has(e, "servers") /\ IsDict(e["servers"])
       THEN DOMAIN e["servers"] ELSE {}

\* C4: in a pass with force = false in which the operator is not asked or does
\* not confirm, no target file that parsed before the pass has lost a server
\* name it held before the pass.
C4_NoDestructiveOverwrite ==
    (/\ pass[0].pc # "idle"
     /\ ~ pass[0].force
     /\ ~ (pass[0].asked /\ pass[0].answer))
    => \A a \in CONFIG_FILES :
           (pass[0].pre[a].st = "ok" /\ files[a].st = "ok")
           => ServerNamesOf(pass[0].pre[a].doc) \subseteq ServerNamesOf(files[a].doc)

\* C7: after update_configs, for every target whose write succeeded, the
\* servers mapping that the target's own preferred handler extracts from the
\* written file equals the servers mapping of the canonical config.
C7_TargetExtractsCanonical ==
    Wrote(0)
    => \A a \in CONFIG_FILES :
           pass[0].results[a].success
           => Get(extract_mcp_config(get_app_handler(a), files[a].doc), "servers", EmptyMap)
              = Get(config, "servers", EmptyMap)

\* the source cannot be used: absent, unparsable, or extracting to an empty mapping
SourceUnusable(f) ==
    \/ f.st = "absent"
    \/ f.st = "bad"
    \/ f.st = "ok" /\ existing_mcp_config(f.doc) = EmptyMap

\* C8: sync_from_file on a source that is absent, unparsable or extracts to an
\* empty mapping returns false, leaves the canonical config as it was before
\* the call and creates or modifies no target file.
C8_UnusableSourceNoEffect ==
    (pass[0].pc # "idle" /\ SourceUnusable(pass[0].pre[pass[0].src]))
    => /\ pass[0].pc = "done"
       /\ pass[0].ret = "false"
       /\ pass[0].results = EmptyMap
       /\ config = pass[0].cfg0
       /\ files = pass[0].pre

C8_Witness ==
    /\ pass[0].pc = "done"
    /\ pass[0].pre[pass[0].src].st = "ok"
    /\ existing_mcp_config(pass[0].pre[pass[0].src].doc) = EmptyMap
    /\ \E a \in CONFIG_FILES : pass[0].pre[a].st = "absent"

\* C9: in the write loop of update_configs a target whose file exists but does
\* not parse is never written and gets success = false with action skipped or
\* failed, every other target still gets its result, and a target whose file
\* is absent is created from the empty document.
C9_ParseErrorBlocksWrite ==
    /\ \A a \in CONFIG_FILES :
           (pass[0].pc # "idle" /\ pass[0].pre[a].st = "bad") => files[a] = pass[0].pre[a]
    /\ (pass[0].pc \in {"validate", "validate_app", "returned", "done", "raised"}
        /\ pass[0].results # EmptyMap
        /\ pass[0].results # CancelledResults(CONFIG_FILES))
       => /\ DOMAIN pass[0].results = CONFIG_FILES
          /\ \A a \in CONFIG_FILES :
                /\ pass[0].pre[a].st = "bad"
                   => /\ ~ pass[0].results[a].success
                      /\ pass[0].results[a].action \in {"skipped", "failed"}
                /\ pass[0].pre[a].st = "absent"
                   => /\ pass[0].results[a] = [success |-> TRUE, action |-> "created"]
                      /\ files[a] = OkFile(merge_mcp_config(get_app_handler(a), EmptyMap, config))

C9_Witness ==
    /\ pass[0].pc = "done"
    /\ Wrote(0)
    /\ \E a, b \in CONFIG_FILES :
          /\ pass[0].pre[a].st = "bad"
          /\ pass[0].results[a].action = "skipped"
          /\ files[a] = BadFile
          /\ pass[0].pre[b].st = "ok"
          /\ pass[0].results[b].action = "updated"
          /\ files[b] # pass[0].pre[b]

\* C10: when a pass with force = false finds a destructive change and the
\* operator declines, every target's result is success = false with action
\* cancelled and no file is created or modified; with force = true the
\* confirmation is never requested and the pass goes on to the write loop.
C10_CancelIsUniform ==
    /\ Declined(0)
       => /\ pass[0].results = [a \in CONFIG_FILES |-> [success |-> FALSE, action |-> "cancelled"]]
          /\ files = pass[0].pre
    /\ pass[0].asked
       => /\ ~ pass[0].force
          /\ check_destructive_operations(pass[0].pre, config, CONFIG_FILES) # EmptyMap
    /\ (pass[0].force /\ (pass[0].pc \in {"validate", "validate_app"} \/ pass[0].status # "NONE"))
       => Wrote(0)
    /\ pass[0].pc \in {"validate", "validate_app"} => (Wrote(0) \/ Declined(0))

C10_Witness ==
    /\ pass[0].pc = "done"
    /\ Declined(0)
    /\ Cardinality(CONFIG_FILES) > 1
    /\ pass[0].results = CancelledResults(CONFIG_FILES)
    /\ files = pass[0].pre

\* the server names of the canonical config, as the destructive check reads them
CanonicalNames ==
    IF IsDict(config) /\ Has(config, "servers") /\ IsDict(config["servers"])
    THEN DOMAIN config["servers"] ELSE {}

\* thread t is past check_destructive_operations, which returned
Checked(t) ==
    /\ pass[t].pc \in {"prompt", "write", "exists", "merge", "truncate", "dump",
                      "validate", "validate_app", "returned", "done"}
    /\ pass[t].mine # EmptyMap

\* C13: check_destructive_operations reports a target exactly when its file
\* exists and parses, holds more servers than the canonical config and holds a
\* server name the canonical config lacks; the lost names it reports are the
\* existing names that are not in the canonical config.
C13_DestructiveDetection ==
    Checked(0)
    => \A a \in CONFIG_FILES :
           LET f == pass[0].pre[a]
               existing == IF f.st = "ok" THEN ServerNamesOf(f.doc) ELSE {}
               reported == a \in DOMAIN pass[0].destructive
           IN /\ reported <=> /\ f.st = "ok"
                              /\ Cardinality(existing) > Cardinality(CanonicalNames)
                              /\ existing \ CanonicalNames # {}
              /\ reported => pass[0].destructive[a] = existing \ CanonicalNames

C13_Witness ==
    /\ Checked(0)
    /\ CanonicalNames = {"a"}
    /\ \E a, b \in CONFIG_FILES :
          /\ a # pass[0].src
          /\ ServerNamesOf(pass[0].pre[a].doc) = {"a", "b"}
          /\ pass[0].destructive = [x \in {a} |-> {"b"}]
    /\ pass[0].pc = "prompt"

\* C14: a call whose source is readable and extracts to a non-empty config
\* returns true exactly when every target's write succeeded and every target
\* validated in_sync; the status is SUCCESS in exactly that case,
\* PARTIAL_SUCCESS exactly when every write succeeded and some target is not
\* in_sync, FAILED otherwise, a cancelled pass included.
C14_ReturnAndStatus ==
    /\ (pass[0].pc = "done" /\ ~ SourceUnusable(pass[0].pre[pass[0].src]))
       => LET all_written == \A a \in CONFIG_FILES : pass[0].results[a].success
              all_valid == \A a \in CONFIG_FILES : pass[0].validation[a].in_sync
          IN /\ DOMAIN pass[0].results = CONFIG_FILES
             /\ DOMAIN pass[0].validation = CONFIG_FILES
             /\ pass[0].ret = "true" <=> (all_written /\ all_valid)
             /\ pass[0].status = "SUCCESS" <=> (all_written /\ all_valid)
             /\ pass[0].status = "PARTIAL_SUCCESS" <=> (all_written /\ ~ all_valid)
             /\ pass[0].status = "FAILED" <=> ~ all_written
             /\ Declined(0) => pass[0].status = "FAILED"
    /\ pass[0].pc = "raised" => pass[0].ret # "true"

C14_Witness ==
    /\ pass[0].pc = "done"
    /\ Wrote(0)
    /\ Cardinality(CONFIG_FILES) = 2
    /\ pass[0].status = "PARTIAL_SUCCESS"
    /\ pass[0].ret = "false"
    /\ \E a \in CONFIG_FILES : pass[0].validation[a].in_sync

\* C16: every sync_from_file call that has returned, whatever its outcome, has
\* rendered a report that names the outcome of each target.
C16_AlwaysReported ==
    pass[0].pc = "done"
    => /\ pass[0].reported
       /\ DOMAIN pass[0].results = CONFIG_FILES

\* C23: in a pass whose source was read, giving a canonical config with a
\* servers mapping, and that was not cancelled, a failure
\* tied to one target (an existing document of unexpected shape, in the
\* destructive-change check or in the merge) is recorded in that target's
\* result and every target of the pass still gets a result.
C23_FailureIsolation ==
    (/\ pass[0].pc \in {"done", "raised"}
     /\ IsDict(pass[0].mine)
     /\ Has(pass[0].mine, "servers")
     /\ IsDict(pass[0].mine["servers"])
     /\ ~ (pass[0].asked /\ ~ pass[0].answer))
    => DOMAIN pass[0].results = CONFIG_FILES

\* C28: a second update_configs with the same canonical config, run after a
\* first one that wrote and with no edit of the files in between, leaves every
\* target it writes successfully with the document the first run gave it.
C28_SecondRunSameFiles ==
    (/\ pass[0].run = 2
     /\ pass[0].pc \in {"write", "exists", "merge", "truncate", "dump", "returned"}
     /\ pass[0].results # CancelledResults(CONFIG_FILES))
    => /\ config = pass[0].cfg0
       /\ \A a \in DOMAIN pass[0].results :
             pass[0].results[a].success => files[a] = pass[0].pre[a]
       /\ pass[0].pc = "returned" => DOMAIN pass[0].results = CONFIG_FILES

C28_Witness ==
    /\ pass[0].run = 2
    /\ pass[0].pc = "returned"
    /\ Cardinality(CONFIG_FILES) = 2
    /\ \A a \in CONFIG_FILES :
          /\ pass[0].results[a] = [success |-> TRUE, action |-> "updated"]
          /\ files[a] = pass[0].pre[a]
          /\ files[a].doc # EmptyMap
    /\ \E a \in CONFIG_FILES : get_app_handler(a) \in {"VSCode", "Cursor"}

-----------------------------------------------------------------------------
(* Claims about the handlers *)

\* C11: the output of merge_mcp_config, for each of the five handlers, keeps
\* every top-level key of the existing document other than mcp and mcpServers
\* with an equal value, and for the VSCode handler every key of the existing
\* mcp section other than servers and inputs.
C11_NonDestructiveMerge ==
    (probe.op = "merge" /\ ~ probe.raised)
    => /\ \A k \in (DOMAIN probe.doc) \ {"mcp", "mcpServers"} :
              Has(probe.out, k) /\ probe.out[k] = probe.doc[k]
       /\ (probe.handler = "VSCode" /\ Has(probe.doc, "mcp"))
          => \A k \in (DOMAIN probe.doc["mcp"]) \ {"servers", "inputs"} :
                 Has(probe.out["mcp"], k) /\ probe.out["mcp"][k] = probe.doc["mcp"][k]

C11_Witness ==
    /\ probe.op = "merge"
    /\ probe.handler = "VSCode"
    /\ ~ probe.raised
    /\ Has(probe.doc, "editor")
    /\ Has(probe.doc, "mcp")
    /\ Has(probe.doc["mcp"], "foo")
    /\ Has(probe.cfg, "servers")
    /\ probe.out["mcp"]["servers"] = probe.cfg["servers"]

\* whether a config has a servers mapping, and the mapping
ServersOf(c) ==
    IF IsDict(c) /\ Has(c, "servers") THEN <<TRUE, c["servers"]>> ELSE <<FALSE, EmptyMap>>

\* C12: for each handler and every document its detect_format accepts,
\* extracting from merge(doc, extract(doc)) gives the same servers mapping as
\* extracting from doc.
C12_RoundTrip ==
    probe.op = "roundtrip" => ServersOf(probe.out) = ServersOf(probe.cfg)

C12_Witness ==
    /\ probe.op = "roundtrip"
    /\ probe.handler = "Cursor"
    /\ ServersOf(probe.cfg)[1]
    /\ probe.cfg["servers"] # EmptyMap
    /\ probe.doc["mcpServers"] # probe.cfg["servers"]
    /\ ServersOf(probe.out) = ServersOf(probe.cfg)

\* C21: after merge_mcp_config(existing, cfg) has returned, for each handler,
\* the document it was given, its nested mcp mapping included, equals its
\* value before the call.
C21_MergeLeavesInput ==
    (probe.op = "merge" /\ ~ probe.raised) => probe.after = probe.doc

\* C26: detect_config_format returns a handler for every document, the first
\* of ClaudeDesktop, VSCode, Cursor, Standard, Legacy whose detect_format
\* accepts it: a document with a mapping mcp holding servers and no mcpServers
\* goes to VSCode, never to Standard, and one with neither mcp nor mcpServers
\* goes to Legacy.
C26_FirstMatch ==
    probe.op = "detect"
    => LET d == probe.doc
           order == <<"ClaudeDesktop", "VSCode", "Cursor", "Standard", "Legacy">>
       IN /\ \E i \in 1..5 :
                /\ probe.handler = order[i]
                /\ detect_format(order[i], d)
                /\ \A j \in 1..(i - 1) : ~ detect_format(order[j], d)
          /\ (~ Has(d, "mcpServers") /\ Has(d, "mcp") /\ IsDict(d["mcp"]) /\ Has(d["mcp"], "servers"))
             => probe.handler = "VSCode"
          /\ (~ Has(d, "mcpServers") /\ ~ Has(d, "mcp")) => probe.handler = "Legacy"

C26_Witness ==
    /\ probe.op = "detect"
    /\ probe.handler = "VSCode"
    /\ ~ Has(probe.doc, "mcpServers")
    /\ Has(probe.doc, "editor")
    /\ probe.doc["mcp"]["servers"] # EmptyMap

\* C22: a newly constructed synchronizer starts with the canonical config
\* {servers: {}}, whatever was done before on another instance, an
\* update_configs with a custom config that adds servers included.
C22_FreshInstanceConfig ==
    probe.op = "construct" => probe.out = [servers |-> EmptyMap]

\* C25: merge_configs(base, overlay) returns a mapping with every key of
\* either; a key of both whose two values are mappings holds their recursive
\* merge, every other key of overlay holds overlay's value, a key of base only
\* keeps base's value; and base is as it was before the call.
C25_DeepMerge ==
    probe.op = "merge_configs"
    => LET base == probe.doc
           overlay == probe.cfg
       IN /\ ~ probe.raised
          /\ DOMAIN probe.out = (DOMAIN base) \cup (DOMAIN overlay)
          /\ \A key \in DOMAIN probe.out :
                IF key \notin DOMAIN overlay THEN probe.out[key] = base[key]
                ELSE IF key \in DOMAIN base /\ IsDictAt(key, base[key])
                        /\ IsDictAt(key, overlay[key])
                THEN probe.out[key] = deep_merge(base[key], overlay[key])
                ELSE probe.out[key] = overlay[key]
          /\ probe.after = base

\* C27: validate_configs reports in_sync = true for a target only if the
\* servers mapping extracted from the target's file equals the servers mapping
\* of the reference config, in every format, also when the reference's servers
\* is empty and when the target holds servers or server fields the reference
\* does not have.
C27_InSyncMeansEqualServers ==
    (probe.op = "validate" /\ probe.out.in_sync)
    => ServersOf(extract_mcp_config(probe.handler, probe.doc))[2] = ServersOf(probe.cfg)[2]

-----------------------------------------------------------------------------
(* Claims about the daemon *)

\* C15: when the running daemon has received a stop request, a stop signal or
\* an explicit stop() call, the observer has been stopped and joined when
\* start() returns, and when a stop() call that found the daemon running
\* returns.  start() returns only after such a request: its wait loop ends
\* only when a signal or the body of stop() has reset running.
C15_StopQuiesces ==
    [][\A th \in DaemonThreads :
          (/\ daemon[th] \in {"test", "join"}
           /\ daemon'[th] = "returned"
           /\ (th = "start" \/ daemon[th] = "join"))
          => observer' = "stopped"]_vars

\* C29: once the daemon has stopped (start() has returned after a stop
\* signal, or a stop() call that found the daemon running has returned, which
\* leaves the observer stopped) no sync_from_file call is started: a debounce
\* timer pending at the time of the stop does not fire afterwards.
C29_NoSyncAfterStop ==
    [][(daemon.start = "returned" \/ (daemon.stop = "returned" /\ observer = "stopped"))
       => \A t \in TimerIds :
              ~ (timers[t].state = "waiting" /\ timers'[t].state = "running")]_vars

-----------------------------------------------------------------------------
(* Claims about the watcher *)

ActiveTimers(app) ==
    {t \in TimerIds : timers[t].app = app /\ timers[t].state \in {"waiting", "running"}}

\* C3: after one external modification of a watched file and no further one,
\* the notifications caused by a pass's own writes schedule no sync: every
\* timer the watcher starts comes from the external modification, that is, it
\* is started for the modified app while no sync has read the modification yet.
C3_NoEchoSync ==
    [][(/\ external <= 1
        /\ dispatch # NoEvent
        /\ dispatch' = NoEvent)
       => unsynced[dispatch.app]]_vars

\* C5: the modification events for one app that arrive while the timer started
\* by the first of them is still waiting cause one sync only, and the waiting
\* timer carries the file path of the last of these events.
C5_DebounceCoalescing ==
    \A t \in TimerIds :
        timers[t].state = "waiting"
        => /\ ActiveTimers(timers[t].app) = {t}
           /\ timers[t].path = timers[t].seen

\* C6: each app has at most one active timer (started, not cancelled, callback
\* not finished), and the pending table holds an entry for an app exactly when
\* the app has an active timer, which is the timer of the entry.
C6_OneTimerPerApp ==
    \A app \in Apps :
        /\ Cardinality(ActiveTimers(app)) <= 1
        /\ pending_syncs[app] # 0 <=> ActiveTimers(app) # {}
        /\ pending_syncs[app] # 0 => pending_syncs[app] \in ActiveTimers(app)

C6_Witness ==
    \E t, u \in TimerIds :
        /\ timers[t].state = "running"
        /\ pass[t].pc = "validate"
        /\ pending_syncs[timers[t].app] = t
        /\ \E e \in events : e.app = timers[t].app
        /\ timers[u].state = "waiting"
        /\ timers[u].app # timers[t].app

\* C17: when the passes of two timers overlap, every document a pass merges
\* for a target, the document it then writes to the target's file, is the
\* merge of the canonical config this pass extracted from its own source.
C17_SingleCanonicalPerPass ==
    [][\A t \in TimerIds :
          (/\ pass[t].pc = "merge"
           /\ pass'[t].pc = "truncate")
          => pass'[t].updated = merge_mcp_config(get_app_handler(Targets[pass[t].i]),
                                                 pass[t].existing,
                                                 pass[t].mine)]_vars

\* the observer thread takes event e from its queue and runs on_modified on it
Dispatches(e) ==
    /\ e \in events
    /\ events' = events \ {e}

\* C18: a modification event for an app whose timer is waiting goes on to
\* _schedule_sync, which cancels the waiting timer and starts a new one with a
\* full debounce window.
C18_DebounceReset ==
    [][\A e \in events :
          (/\ Dispatches(e)
           /\ Exists(files[e.app])
           /\ pending_syncs[e.app] # 0
           /\ timers[pending_syncs[e.app]].state = "waiting")
          => dispatch' = e]_vars

\* C19: a modification event for an app that has an entry in the pending
\* table (its timer waiting or its callback running) goes no further than the
\* guard: no timer is scheduled, the pending table and the timers stay as they are.
C19_PendingGuard ==
    [][\A e \in events :
          (Dispatches(e) /\ pending_syncs[e.app] # 0)
          => /\ dispatch' = NoEvent
             /\ pending_syncs' = pending_syncs
             /\ \A t \in TimerIds : timers'[t] = [timers[t] EXCEPT !.seen = timers'[t].seen]]_vars

C19_Witness ==
    \E t \in TimerIds :
        /\ timers[t].state = "waiting"
        /\ pending_syncs[timers[t].app] = t
        /\ timers[t].seen # timers[t].path
        /\ \A e \in events : e.app # timers[t].app
        /\ dispatch = NoEvent

\* C20: an external modification of an app's file that no sync from this app
\* has read yet is never overwritten by the write that a sync from this app,
\* which read the file before the modification, makes to this same file.
C20_NoLostExternalEdit ==
    [][\A t \in TimerIds :
          (/\ pass[t].pc = "dump"
           /\ pass'[t].pc # "dump"
           /\ Targets[pass[t].i] = pass[t].src
           /\ unsynced[pass[t].src])
          => /\ files'[pass[t].src].st = "ok"
             /\ existing_mcp_config(files'[pass[t].src].doc)
                = existing_mcp_config(ExternalDoc(pass[t].src))]_vars


\* C24: whatever the sync run by a timer's callback did (returned true,
\* returned false or raised), the step that ends the callback removes the
\* app's entry from pending_syncs and ends the timer: no exception leaves
\* _execute_sync and the app is no longer pending.
C24_CallbackClearsEntry ==
    [][\A t \in TimerIds :
           (/\ timers[t].state = "running"
            /\ pass[t].pc \in {"done", "raised"}
            /\ (timers'[t] # timers[t] \/ pass'[t] # pass[t]))
           => /\ timers'[t].state = "unused"
              /\ pending_syncs'[timers[t].app] = 0]_vars

\* a callback whose sync raised is about to end, its app still pending
C24_Witness ==
    \E t \in TimerIds :
        /\ timers[t].state = "running"
        /\ pass[t].pc = "raised"
        /\ pending_syncs[timers[t].app] = t

====
